---- MODULE Spec2Model ----
(***************************************************************************)
(* A model of StringScanner (src/src/strscan.rs): a cursor over an         *)
(* immutable UTF-8 string, with anchored-match operations that cache the   *)
(* captures of the most recent match attempt.                              *)
(*                                                                         *)
(* Strings are sequences of bytes.  A byte offset o (0-based, as in the    *)
(* source) addresses the element o + 1 of the sequence.  Option values are *)
(* sequences: <<>> is None and <<v>> is Some(v).                           *)
(***************************************************************************)
EXTENDS Integers, Sequences, FiniteSets, TLC

\* Longest text, in bytes.
MaxLen == 4
\* Largest length argument handed to peek_bytes / peek_chars.
MaxPeek == 3

\* The line-feed byte that is_bol compares with.
LF == 10

None == <<>>
Some(v) == <<v>>

\* The bytes texts are made of: "a", "\n", and the two bytes of "é".
Bytes == {97, LF, 195, 169}

\* A continuation byte of a multi-byte character (10xxxxxx).
IsCont(b) == b >= 128 /\ b < 192

\* Byte length of the character whose first byte is b.
Width(b) == IF b < 128 THEN 1 ELSE IF b < 224 THEN 2 ELSE IF b < 240 THEN 3 ELSE 4

\* A &str is valid UTF-8: every lead byte is followed by its continuation
\* byte and every continuation byte follows a lead byte.
ValidUtf8(s) ==
    \A i \in 1..Len(s) :
        /\ (s[i] = 195 => i < Len(s) /\ s[i + 1] = 169)
        /\ (s[i] = 169 => i > 1 /\ s[i - 1] = 195)

Texts == {s \in UNION {[1..n -> Bytes] : n \in 0..MaxLen} : ValidUtf8(s)}

\* str::is_char_boundary: offset i is the start of a character or the end.
IsCharBoundary(s, i) ==
    \/ i = 0
    \/ i = Len(s)
    \/ (i > 0 /\ i < Len(s) /\ ~IsCont(s[i + 1]))

\* &s[a..b] completes (does not panic).
SliceOk(s, a, b) ==
    /\ a <= b
    /\ b <= Len(s)
    /\ IsCharBoundary(s, a)
    /\ IsCharBoundary(s, b)

\* &s[a..b]
Slice(s, a, b) == SubSeq(s, a + 1, b)

\* The number of characters of s from byte offset i on.
RECURSIVE CharsFrom(_, _)
CharsFrom(s, i) ==
    IF i >= Len(s) THEN 0 ELSE 1 + CharsFrom(s, i + Width(s[i + 1]))

\* The byte offset after the first n characters of s counted from offset i.
RECURSIVE CharEnd(_, _, _)
CharEnd(s, i, n) ==
    IF n = 0 \/ i >= Len(s) THEN i ELSE CharEnd(s, i + Width(s[i + 1]), n - 1)

\* s.slice_chars(0, n), for n no larger than the number of characters of s.
SliceChars(s, n) == Slice(s, 0, CharEnd(s, 0, n))

----
\* The regular expressions handed to scan and check.  A pattern is one or
\* two greedy runs of a character class, optionally anchored with ^, the
\* first run optionally a capture group, which may carry a name.
re_chars == [anch |-> TRUE, first |-> "w", second |-> "", group |-> FALSE, name |-> ""]
re_ws == [anch |-> TRUE, first |-> "s", second |-> "", group |-> FALSE, name |-> ""]
re_caps == [anch |-> TRUE, first |-> "w", second |-> "s", group |-> TRUE, name |-> ""]
re_free_ws == [anch |-> FALSE, first |-> "s", second |-> "", group |-> FALSE, name |-> ""]
re_free_chars == [anch |-> FALSE, first |-> "w", second |-> "", group |-> FALSE, name |-> ""]
re_named == [anch |-> TRUE, first |-> "w", second |-> "s", group |-> TRUE, name |-> "word"]

Patterns == {re_chars, re_ws, re_caps, re_free_ws, re_free_chars, re_named}

\* The group names handed to match_name.
Names == {"word", "other"}

\* The character that starts with byte b is in class cls (\w or \s).
InClass(cls, b) ==
    IF cls = "w" THEN b = 97 \/ b = 195
    ELSE IF cls = "s" THEN b = LF
    ELSE FALSE

\* The end of the longest run of characters of class cls starting at i.
RECURSIVE RunEnd(_, _, _)
RunEnd(s, i, cls) ==
    IF i < Len(s) /\ InClass(cls, s[i + 1])
    THEN RunEnd(s, i + Width(s[i + 1]), cls)
    ELSE i

\* The match of re that starts exactly at offset i of s: None, or the byte
\* ranges of group 0 and of the capture group.
MatchAt(re, s, i) ==
    LET e1 == RunEnd(s, i, re.first)
        e2 == IF re.second = "" THEN e1 ELSE RunEnd(s, e1, re.second)
    IN  IF e1 = i \/ (re.second # "" /\ e2 = e1) THEN None
        ELSE IF re.group THEN Some(<< <<i, e2>>, <<i, e1>> >>)
        ELSE Some(<< <<i, e2>> >>)

\* The leftmost match of re in s at or after offset i.
RECURSIVE FindFrom(_, _, _)
FindFrom(re, s, i) ==
    IF MatchAt(re, s, i) # None THEN MatchAt(re, s, i)
    ELSE IF re.anch \/ i >= Len(s) THEN None
    ELSE FindFrom(re, s, i + Width(s[i + 1]))

\* Regex::captures(text): the captures of the leftmost match, with the text
\* they index into and the name of the capture group, if it has one.
ReCaptures(re, text) ==
    IF FindFrom(re, text, 0) = None THEN None
    ELSE Some([text |-> text, locs |-> FindFrom(re, text, 0)[1], named |-> re.name])

\* Captures::pos(i)
CapsPos(caps, i) ==
    IF i + 1 \in DOMAIN caps.locs THEN Some(caps.locs[i + 1]) ELSE None

\* Captures::at(i)
CapsAt(caps, i) ==
    IF i + 1 \in DOMAIN caps.locs
    THEN Some(Slice(caps.text, caps.locs[i + 1][1], caps.locs[i + 1][2]))
    ELSE None

\* Captures::name(name): the named group is group 1.
CapsName(caps, name) ==
    IF caps.named # "" /\ caps.named = name THEN CapsAt(caps, 1) ELSE None

----
VARIABLES
    string,      \* the text the scanner borrows
    pos,         \* current byte index into string
    end,         \* amount of bytes in string
    last_match,  \* LastMatch.caps: None or Some(captures)
    op,          \* the most recent call
    arg,         \* its argument
    ret,         \* its return value
    old_pos,     \* pos when the most recent call started
    attempted,   \* None before the first scan or check, then Some(result of
                 \* Regex::captures in the most recent scan or check)
    aborted      \* the most recent call panicked

vars == <<string, pos, end, last_match, op, arg, ret, old_pos, attempted, aborted>>

\* StringScanner::new
Init ==
    /\ string \in Texts
    /\ pos = 0
    /\ end = Len(string)
    /\ last_match = None
    /\ op = "new"
    /\ arg = None
    /\ ret = None
    /\ old_pos = 0
    /\ attempted = None
    /\ aborted = FALSE

\* The record of a call: its name, argument, result and starting position.
Called(o, a, r) ==
    /\ op' = o
    /\ arg' = a
    /\ ret' = r
    /\ old_pos' = pos
    /\ UNCHANGED <<string, end>>

\* A call that makes no match attempt.
Call(o, a, r) ==
    /\ Called(o, a, r)
    /\ UNCHANGED attempted

\* A scan or check call whose match attempt gave caps.
MatchCall(o, a, r, caps) ==
    /\ Called(o, a, r)
    /\ attempted' = Some(caps)

\* A call that panics: nothing is written and the scanner is not used again.
Panic(o, a) ==
    /\ Call(o, a, None)
    /\ aborted' = TRUE
    /\ UNCHANGED <<pos, last_match>>

is_eos == pos = end

\* StringScanner::get_pos
get_pos == pos

\* Variants of the range check: off by one upward, off by one downward,
\* and missing.
SetPosRejects_past(p) == p > end + 1
SetPosRejects_ge(p) == p >= end
SetPosRejects_never(p) == FALSE

\* set_pos's range check: the requested position is past the end.
SetPosRejects(p) == p > end

\* StringScanner::set_pos
set_pos(p) ==
    /\ ~aborted
    /\ IF SetPosRejects(p)
       THEN /\ Call("set_pos", p, FALSE)
            /\ UNCHANGED <<pos, last_match, aborted>>
       ELSE /\ pos' = p
            /\ Call("set_pos", p, TRUE)
            /\ UNCHANGED <<last_match, aborted>>

\* Variant: terminate stops one byte short of the end.
TerminatePos_short == IF end > 0 THEN end - 1 ELSE end

\* The position terminate moves to.
TerminatePos == end

\* Variant: terminate also drops the cached captures.
terminate_clearing ==
    /\ ~aborted
    /\ pos' = TerminatePos
    /\ last_match' = None
    /\ Call("terminate", None, None)
    /\ UNCHANGED aborted

\* StringScanner::terminate
terminate ==
    /\ ~aborted
    /\ pos' = TerminatePos
    /\ Call("terminate", None, None)
    /\ UNCHANGED <<last_match, aborted>>

\* &self.string[self.pos.get()..] completes.
RestOk == SliceOk(string, pos, Len(string))

\* &self.string[self.pos.get()..]
RestStr == Slice(string, pos, Len(string))

\* Variant: rest consumes what it returns.
rest_consuming ==
    /\ ~aborted
    /\ IF is_eos
       THEN Call("rest", None, None) /\ UNCHANGED <<pos, last_match, aborted>>
       ELSE IF ~RestOk
       THEN Panic("rest", None)
       ELSE /\ pos' = end
            /\ Call("rest", None, Some(RestStr))
            /\ UNCHANGED <<last_match, aborted>>

\* StringScanner::rest
rest ==
    /\ ~aborted
    /\ IF is_eos
       THEN Call("rest", None, None) /\ UNCHANGED <<pos, last_match, aborted>>
       ELSE IF ~RestOk
       THEN Panic("rest", None)
       ELSE Call("rest", None, Some(RestStr)) /\ UNCHANGED <<pos, last_match, aborted>>

\* The end index peek_bytes computes: pos + len, clipped to self.end.
PeekEnd(len) == IF pos + len > end THEN end ELSE pos + len

\* The slice peek_bytes takes of rest(): [pos..end] of the remaining text.
PeekBytesOk(len) == SliceOk(RestStr, pos, PeekEnd(len))
PeekBytesSlice(len) == Slice(RestStr, pos, PeekEnd(len))

\* StringScanner::peek_bytes
peek_bytes(len) ==
    /\ ~aborted
    /\ IF is_eos
       THEN Call("peek_bytes", len, None) /\ UNCHANGED <<pos, last_match, aborted>>
       ELSE IF ~RestOk \/ ~PeekBytesOk(len)
       THEN Panic("peek_bytes", len)
       ELSE /\ Call("peek_bytes", len, Some(PeekBytesSlice(len)))
            /\ UNCHANGED <<pos, last_match, aborted>>

\* The number of characters peek_chars takes: len clipped to those remaining.
PeekCharsLen(len) ==
    IF len > CharsFrom(RestStr, 0) THEN CharsFrom(RestStr, 0) ELSE len

\* StringScanner::peek_chars
peek_chars(len) ==
    /\ ~aborted
    /\ IF is_eos
       THEN Call("peek_chars", len, None) /\ UNCHANGED <<pos, last_match, aborted>>
       ELSE IF ~RestOk
       THEN Panic("peek_chars", len)
       ELSE /\ Call("peek_chars", len, Some(SliceChars(RestStr, PeekCharsLen(len))))
            /\ UNCHANGED <<pos, last_match, aborted>>

\* The slice get_byte takes of rest(): [pos..pos + 1] of the remaining text.
GetByteOk == SliceOk(RestStr, pos, pos + 1)
GetByteSlice == Slice(RestStr, pos, pos + 1)

\* StringScanner::get_byte
get_byte ==
    /\ ~aborted
    /\ IF is_eos
       THEN Call("get_byte", None, None) /\ UNCHANGED <<pos, last_match, aborted>>
       ELSE IF ~RestOk \/ ~GetByteOk
       THEN Panic("get_byte", None)
       ELSE /\ pos' = pos + 1
            /\ Call("get_byte", None, Some(GetByteSlice[1]))
            /\ UNCHANGED <<last_match, aborted>>

\* Variant: get_char takes one byte instead of one character.
GetCharChr_byte == Slice(RestStr, 0, 1)

\* The character get_char takes: rest.slice_chars(0, 1).
GetCharChr == SliceChars(RestStr, 1)

\* StringScanner::get_char
get_char ==
    /\ ~aborted
    /\ IF is_eos
       THEN Call("get_char", None, None) /\ UNCHANGED <<pos, last_match, aborted>>
       ELSE IF ~RestOk
       THEN Panic("get_char", None)
       ELSE /\ pos' = pos + Len(GetCharChr)
            /\ Call("get_char", None, Some(GetCharChr))
            /\ UNCHANGED <<last_match, aborted>>

\* The position scan moves to: pos plus the end index of group 0.
ScanNewPos(caps) == pos + CapsPos(caps, 0)[1][2]

\* Variant: a failed scan leaves the cached captures in place.
ScanMissMatch_stale == last_match

\* What scan writes to last_match when the pattern does not match.
ScanMissMatch == None

\* The position scan leaves, what it writes to last_match and what it
\* returns, for the pattern re, when the remaining text can be taken.
ScanPos(re) ==
    LET caps_opt == ReCaptures(re, RestStr)
    IN  IF caps_opt = None THEN pos ELSE ScanNewPos(caps_opt[1])
ScanLast(re) ==
    LET caps_opt == ReCaptures(re, RestStr)
    IN  IF caps_opt = None THEN ScanMissMatch ELSE Some(caps_opt[1])
ScanRet(re) ==
    LET caps_opt == ReCaptures(re, RestStr)
    IN  IF caps_opt = None THEN None
        ELSE Some(Slice(string, pos, ScanNewPos(caps_opt[1])))

\* StringScanner::scan
scan(re) ==
    /\ ~aborted
    /\ IF ~RestOk
       THEN Panic("scan", re)
       ELSE /\ pos' = ScanPos(re)
            /\ last_match' = ScanLast(re)
            /\ MatchCall("scan", re, ScanRet(re), ReCaptures(re, RestStr))
            /\ UNCHANGED aborted

\* Variant: check never caches its captures.
CheckMatch_none(caps) == None

\* Variant: a failed check leaves the cached captures in place.
CheckMatch_stale(caps) == IF caps = None THEN last_match ELSE caps

\* What check writes to last_match for the result caps of Regex::captures.
CheckMatch(caps) == caps

\* What check writes to last_match and what it returns, for the pattern
\* re, when the remaining text can be taken.
CheckLast(re) == CheckMatch(ReCaptures(re, RestStr))
CheckRet(re) == ReCaptures(re, RestStr) # None

\* StringScanner::check
check(re) ==
    /\ ~aborted
    /\ IF ~RestOk
       THEN Panic("check", re)
       ELSE /\ last_match' = CheckLast(re)
            /\ MatchCall("check", re, CheckRet(re), ReCaptures(re, RestStr))
            /\ UNCHANGED <<pos, aborted>>

\* StringScanner::captures
captures == last_match

\* StringScanner::match_at
match_at(i) == IF captures # None THEN CapsAt(captures[1], i) ELSE None

\* StringScanner::match_name
match_name(name) == IF captures # None THEN CapsName(captures[1], name) ELSE None

\* A call of a query that returns r and writes nothing.
Query(o, a, r) == ~aborted /\ Call(o, a, r) /\ UNCHANGED <<pos, last_match, aborted>>

\* &self.string[self.pos.get() - 1..self.pos.get()] completes.
BolOk == SliceOk(string, pos - 1, pos)

\* StringScanner::is_bol
is_bol ==
    IF pos = 0 THEN TRUE
    ELSE IF pos > end THEN FALSE
    ELSE Slice(string, pos - 1, pos) = <<LF>>

\* A call of is_bol.
call_is_bol ==
    /\ ~aborted
    /\ IF pos # 0 /\ pos <= end /\ ~BolOk
       THEN Panic("is_bol", None)
       ELSE Call("is_bol", None, is_bol) /\ UNCHANGED <<pos, last_match, aborted>>

\* Calls of is_eos, get_pos, captures, match_at and match_name.
call_is_eos == Query("is_eos", None, is_eos)
call_get_pos == Query("get_pos", None, get_pos)
call_captures == Query("captures", None, captures)
call_match_at(i) == Query("match_at", i, match_at(i))
call_match_name(name) == Query("match_name", name, match_name(name))

\* Largest group index handed to match_at.
MaxGroup == 2

Next ==
    \/ \E p \in 0..(MaxLen + 1) : set_pos(p)
    \/ terminate
    \/ rest
    \/ \E len \in 0..MaxPeek : peek_bytes(len)
    \/ \E len \in 0..MaxPeek : peek_chars(len)
    \/ get_byte
    \/ get_char
    \/ \E re \in Patterns : scan(re)
    \/ \E re \in Patterns : check(re)
    \/ call_is_bol
    \/ call_is_eos
    \/ call_get_pos
    \/ call_captures
    \/ \E i \in 0..MaxGroup : call_match_at(i)
    \/ \E name \in Names : call_match_name(name)

Spec == Init /\ [][Next]_vars

----
\* The remaining text the most recent call started from.
OldRest == Slice(string, old_pos, Len(string))

\* The most recent call was o and it returned.
Returned(o) == op = o /\ ~aborted

\* C1: after any sequence of operations the position is between 0 and the
\* length of the text, both included.
C1_PosInRange == 0 <= pos /\ pos <= Len(string)

\* C1 witness: consumption has carried the position to the upper end of a
\* text of several bytes.
C1_Witness == op = "get_char" /\ ret # None /\ pos = Len(string) /\ Len(string) > 1

\* C2: scan is anchored at the current position.  A scan that returns a
\* value had a match starting at offset 0 of the remaining text, and a scan
\* whose pattern does not match at offset 0 returns no value and leaves the
\* position where it was.
C2_ScanAnchored ==
    Returned("scan") =>
        /\ (ret # None => MatchAt(arg, OldRest, 0) # None)
        /\ (MatchAt(arg, OldRest, 0) = None => ret = None /\ pos = old_pos)

\* C3: after a successful scan the position is the old position plus the
\* byte length of the group-0 match, and match_at(0) is the substring that
\* scan returned.
C3_ScanAdvance ==
    (Returned("scan") /\ ret # None) =>
        /\ match_at(0) # None
        /\ pos = old_pos + Len(match_at(0)[1])
        /\ match_at(0) = ret

\* C4: after a scan whose pattern does not match at the current position,
\* scan has returned no value, the position is the one before the call and
\* captures() returns no value.
C4_ScanFailure ==
    (Returned("scan") /\ MatchAt(arg, OldRest, 0) = None) =>
        /\ ret = None
        /\ pos = old_pos
        /\ captures = None

\* C5: check never changes the position; after a successful check
\* captures() is the capture set of that check, and after a failed check
\* captures() returns no value.
C5_CheckFrame ==
    Returned("check") =>
        /\ pos = old_pos
        /\ (ret = TRUE => captures # None /\ captures = ReCaptures(arg, OldRest))
        /\ (ret = FALSE => captures = None)

\* C5 witness: a check has failed away from the start of the text.
C5_Witness == Returned("check") /\ ret = FALSE /\ old_pos > 0 /\ old_pos < end

\* C6: captures() returns a capture set exactly when a scan or check has
\* been called and the most recent one succeeded, and then it is the capture
\* set of that most recent call.  (A call that panics does not return, so
\* no captures() call follows it.)
C6_LastAttempt ==
    ~aborted =>
        /\ (captures # None <=> (attempted # None /\ attempted[1] # None))
        /\ (captures # None => captures = attempted[1])

\* C6 witness: a scan has failed, away from the start of a text that begins
\* with a word (so that an earlier attempt could succeed), and the cache is
\* empty.
C6_Witness ==
    /\ Returned("scan") /\ ret = None
    /\ old_pos > 0 /\ MatchAt(re_chars, string, 0) # None
    /\ captures = None

\* C7: set_pos(p) with p <= length(text) returns success and the position
\* is p afterwards.
C7_SetPosValid ==
    (op = "set_pos" /\ arg <= Len(string)) => ret = TRUE /\ pos = arg

\* C7 witness: a backward jump has succeeded.
C7_Witness == op = "set_pos" /\ arg <= Len(string) /\ arg < old_pos /\ ret = TRUE

\* C8: set_pos(p) with p > length(text) returns failure and the position is
\* the one before the call; on the empty text is_eos() stays true.
C8_SetPosInvalid ==
    (op = "set_pos" /\ arg > Len(string)) =>
        /\ ret = FALSE
        /\ pos = old_pos
        /\ (Len(string) = 0 => is_eos)

\* C8 witness: a set_pos past the end was rejected away from position 0.
C8_Witness == op = "set_pos" /\ arg > Len(string) /\ ret = FALSE /\ old_pos > 0

\* C9: away from end-of-string get_byte returns the byte at the current
\* position and advances the position by one; at end-of-string it returns
\* no value and the position stays.
C9_GetByte ==
    op = "get_byte" =>
        IF old_pos < Len(string)
        THEN ~aborted /\ ret = Some(string[old_pos + 1]) /\ pos = old_pos + 1
        ELSE ~aborted /\ ret = None /\ pos = old_pos

\* C10: away from end-of-string peek_bytes(n) returns the bytes from the
\* current position up to position + n, clipped to the end of the text; at
\* end-of-string it returns no value.
C10_PeekBytes ==
    op = "peek_bytes" =>
        IF old_pos < Len(string)
        THEN /\ ~aborted
             /\ ret = Some(Slice(string, old_pos,
                                 IF old_pos + arg > Len(string)
                                 THEN Len(string) ELSE old_pos + arg))
        ELSE ~aborted /\ ret = None

\* The calls that signal "no value" at end-of-string.
EosOps == {"peek_bytes", "peek_chars", "rest", "get_byte", "get_char"}

\* C11: each of peek_bytes, peek_chars, rest, get_byte and get_char returns
\* no value exactly when the position is the length of the text, and in
\* every other state completes with a value, never with an abort.
C11_NoValueOnlyAtEos ==
    op \in EosOps => ~aborted /\ (ret = None <=> old_pos = Len(string))

\* C12: is_eos() is true exactly when get_pos() is the length of the text,
\* and after terminate() is_eos() is true.
C12_Eos ==
    /\ is_eos <=> get_pos = Len(string)
    /\ op = "is_eos" => (ret <=> get_pos = Len(string))
    /\ op = "terminate" => is_eos

\* C12 witness: terminate has been called away from the end.
C12_Witness == op = "terminate" /\ old_pos < Len(string) /\ is_eos

\* C13: is_bol() never fails; it is true at position 0 and when the byte
\* immediately before the position is a line feed, and false otherwise.
C13_IsBol ==
    op = "is_bol" =>
        /\ ~aborted
        /\ ret <=> (old_pos = 0 \/ (old_pos > 0 /\ string[old_pos] = LF))

\* C14: away from end-of-string get_char returns the one full character
\* that starts at the current position (1 to 4 bytes) and advances the
\* position by its byte length; at end-of-string it returns no value and the
\* position stays.
C14_GetChar ==
    op = "get_char" =>
        IF old_pos < Len(string)
        THEN /\ ~aborted
             /\ ret # None
             /\ ~IsCont(string[old_pos + 1])
             /\ Len(ret[1]) = Width(string[old_pos + 1])
             /\ Len(ret[1]) \in 1..4
             /\ ret[1] = Slice(string, old_pos, old_pos + Len(ret[1]))
             /\ pos = old_pos + Len(ret[1])
        ELSE ~aborted /\ ret = None /\ pos = old_pos

\* C15: away from end-of-string peek_chars(n) returns the first
\* min(n, remaining characters) whole characters of the remaining text, and
\* the returned slice ends on a character boundary.
C15_PeekChars ==
    (op = "peek_chars" /\ old_pos < Len(string)) =>
        /\ ~aborted
        /\ ret # None
        /\ LET rem == CharsFrom(string, old_pos)
               n == IF arg > rem THEN rem ELSE arg
           IN  ret[1] = Slice(string, old_pos, CharEnd(string, old_pos, n))
        /\ IsCharBoundary(string, old_pos + Len(ret[1]))

\* The lookahead and query calls.
QueryOps ==
    {"peek_bytes", "peek_chars", "rest", "is_bol", "is_eos", "get_pos",
     "captures", "match_at", "match_name"}

\* C16: peek_bytes, peek_chars, rest, is_bol, is_eos, get_pos, captures,
\* match_at and match_name leave the position and last_match unchanged.
C16_QueriesPure ==
    [][op' \in QueryOps => pos' = pos /\ last_match' = last_match]_vars

\* C16 witness: a lookahead has returned a value in the middle of the text
\* while captures are cached.
C16_Witness ==
    /\ Returned("rest") /\ ret # None
    /\ pos > 0 /\ last_match # None

\* The single-unit consumption and position calls.
MoveOps == {"get_byte", "get_char", "set_pos", "terminate"}

\* C17: get_byte, get_char, set_pos and terminate never change last_match:
\* captures(), match_at(i) and match_name(name) give the same results after
\* the call as before it.
C17_MovesKeepMatch ==
    [][op' \in MoveOps =>
        /\ captures' = captures
        /\ \A i \in 0..MaxGroup : match_at(i)' = match_at(i)
        /\ \A name \in Names : match_name(name)' = match_name(name)]_vars

\* C17 witness: get_char has moved the position while a named capture is
\* cached.
C17_Witness ==
    /\ Returned("get_char") /\ ret # None
    /\ match_name("word") # None

\* C18: from the same state and with the same pattern, check succeeds
\* exactly when scan returns a value and both leave the same last_match
\* (hence the same captures(), match_at(i) and match_name(name)); check
\* leaves the position where it was.
C18_CheckLikeScan ==
    /\ \A re \in Patterns :
          (~aborted /\ RestOk) =>
              /\ CheckRet(re) <=> ScanRet(re) # None
              /\ CheckLast(re) = ScanLast(re)
    /\ Returned("check") => pos = old_pos

\* C18 witness: a check has succeeded away from the start of the text, and
\* a scan with the same pattern from here returns a value, moves on and
\* leaves the captures the check left.
C18_Witness ==
    /\ Returned("check") /\ ret = TRUE /\ pos > 0
    /\ ScanRet(arg) # None /\ ScanPos(arg) > pos /\ ScanLast(arg) = last_match

\* C19: after any sequence of operations the position is on a character
\* boundary of the text.
C19_OnBoundary == IsCharBoundary(string, pos)

\* C19 as amended: every operation other than set_pos and get_byte takes a
\* position on a character boundary to a position on a character boundary.
C19_BoundaryKept ==
    [][(IsCharBoundary(string, pos) /\ op' \notin {"set_pos", "get_byte"})
        => IsCharBoundary(string, pos')]_vars

\* C19 witness: get_char has stepped over a two-byte character to a
\* position before the end.
C19_Witness ==
    /\ Returned("get_char") /\ ret # None
    /\ Len(ret[1]) = 2 /\ pos < Len(string)

\* C20: scan, get_byte, get_char and terminate never decrease the position;
\* a get_byte or get_char call away from end-of-string returns a value and
\* strictly increases the position (so a loop of such calls reaches
\* end-of-string within length - position calls); at end-of-string the
\* call returns no value and the position stays.
C20_Progress ==
    /\ op \in {"scan", "get_byte", "get_char", "terminate"} => pos >= old_pos
    /\ op \in {"get_byte", "get_char"} =>
        IF old_pos < Len(string)
        THEN ~aborted /\ ret # None /\ pos > old_pos /\ pos <= Len(string)
        ELSE ~aborted /\ ret = None /\ pos = old_pos

====
